---- MODULE Spec2Model ----
(***************************************************************************)
(* A model of the fixed-capacity heap allocator of src/src/allocator.c.    *)
(*                                                                         *)
(* The arena is modelled at the granularity of 8-byte words: a block       *)
(* header is three words (size, free, next) at byte offsets 0, 8 and 16.   *)
(* mem maps the absolute byte address of every non-zero word to its value; *)
(* a word that is not in the domain of mem is zero, as the static arena    *)
(* is zero-initialised.  Pointers are absolute addresses, NULL is 0.       *)
(***************************************************************************)
EXTENDS Integers, Sequences, FiniteSets, TLC

\* ---- program constants (include/allocator.h) ----
HEAP_CAPACITY == 640000
ALIGNMENT == 16
SizeofBlockHeader == 24
OffsetSize == 0
OffsetFree == 8
OffsetNext == 16
NULL == 0

\* ---- size_t ----
\* A size_t value v is held as v when v < 2^63 and as v - 2^64 otherwise, so
\* that sums and differences are those of the integers modulo 2^64, and a
\* value is a multiple of ALIGNMENT when its representative is.
SIZE_MAX == -1
\* the order of unsigned values
ULt(a, b) == IF (a < 0) = (b < 0) THEN a < b ELSE b < 0
ULe(a, b) == a = b \/ ULt(a, b)
UGt(a, b) == ULt(b, a)
UGe(a, b) == ULe(b, a)

\* ---- bounds of the model ----
\* largest number of calls that change the arena in one run
MaxCalls == 4
\* the same bound where the calls take every input
MaxAnyCalls == 3
\* byte counts passed to heap_alloc and heap_realloc (besides 0)
BigRequest == HEAP_CAPACITY - 100
Requests == {1, 100, BigRequest}
\* where the build places the arena: an ALIGNMENT-aligned address, as the
\* aligned attribute of heap demands
HeapBases == {4210752}

\* the same bound where the calls are allocations and frees of FitRequests
MaxFitCalls == 6
FitRequests == {1, 100}
\* how many times a client repeats heap_alloc(n); heap_free(result)
MaxRepeats == 3
\* the same bound where the calls are allocations, frees and resizes of
\* ResizeRequests, and the client writes FillWords into its payloads
MaxResizeCalls == 5
ResizeRequests == {1, 56, 100}
ResizeAllocs == {1}
FillWords == {7}
\* the same bound where the calls are allocations, frees and resizes of
\* FitRequests
MaxMoveCalls == 6
\* the same bound where the calls are allocations and frees of FitRequests,
\* resizes to ShrinkRequests and defragment_heap
MaxDefragCalls == 5
\* the same bound where the calls are allocations, frees and resizes of
\* FitRequests and check_heap_integrity
MaxAuditCalls == 4
\* the same bound where the calls are allocations and frees of FitRequests
\* and the three searches for a block of one of FindSizes bytes
MaxFindCalls == 5
FindSizes == {32, 128}
ShrinkRequests == {1}
\* the same bound where the calls are allocations of ResizeAllocs, frees and
\* resizes to ExactRequests
MaxExactCalls == 5
ExactRequests == {1, 24, 56}
\* the same bound where the calls are allocations of ExhaustAllocs, frees and
\* resizes to ExhaustRequests: BigRequest fills the arena
MaxExhaustCalls == 5
ExhaustAllocs == {1, BigRequest}
ExhaustRequests == {56, BigRequest}
\* the same bound where the calls are allocations and frees of FitRequests
\* and resizes of held, freed and outside pointers
MaxStaleCalls == 4
\* byte counts above HEAP_CAPACITY, up to the largest value of size_t
TooLarge == {HEAP_CAPACITY + 1, SIZE_MAX - 39, SIZE_MAX - 23, SIZE_MAX}

Strategies == {"FIRST_FIT", "BEST_FIT", "WORST_FIT"}

VARIABLES
    heap,              \* address of char heap[HEAP_CAPACITY]
    mem,               \* contents of memory, word address -> value
    first_block,       \* BlockHeader* first_block
    heap_size,         \* size_t heap_size (the water-mark)
    current_strategy,  \* AllocationStrategy current_strategy
    last_status,       \* static AllocatorStatus last_status
    live,              \* payload pointers the client holds -> bytes requested
    freed,             \* payload pointers the client has given back
    op,                \* the call that was made last, with its result
    calls,             \* number of calls so far that changed the arena
    fault              \* "none", or why the last call did not return

vars == <<heap, mem, first_block, heap_size, current_strategy, last_status,
          live, freed, op, calls, fault>>

\* ---- memory ----
Load(m, a) == IF a \in DOMAIN m THEN m[a] ELSE 0

Store(m, a, v) ==
    IF v = 0 THEN [x \in (DOMAIN m) \ {a} |-> m[x]]
    ELSE [x \in (DOMAIN m) \cup {a} |-> IF x = a THEN v ELSE m[x]]

\* a BlockHeader object at address b lies inside the arena
InArena(b) ==
    /\ b >= heap
    /\ b + SizeofBlockHeader <= heap + HEAP_CAPACITY
    /\ b % 8 = 0

GetSize(m, b) == Load(m, b + OffsetSize)
GetNext(m, b) == Load(m, b + OffsetNext)
\* the bool occupies the low byte of the word at offset 8
FreeByte(m, b) == Load(m, b + OffsetFree) % 256
GetFree(m, b) == FreeByte(m, b) = 1
SetSize(m, b, v) == Store(m, b + OffsetSize, v)
SetNext(m, b, v) == Store(m, b + OffsetNext, v)
SetFree(m, b, f) ==
    LET w == Load(m, b + OffsetFree)
    IN Store(m, b + OffsetFree, (w - (w % 256)) + (IF f THEN 1 ELSE 0))

\* ---- the machine state a C function works on ----
\* [mem, first_block, heap_size, last_status, fault, ret]
SetStatus(s, status) == [s EXCEPT !.last_status = status]
Return(s, v) == [s EXCEPT !.ret = v]
Stop(s, why) == [s EXCEPT !.fault = why]

\* why a read of the header at b does not have a defined result, or "none"
HeaderFault(s, b) ==
    IF ~InArena(b) THEN "wild"
    ELSE IF FreeByte(s.mem, b) \notin {0, 1} THEN "trap"
    ELSE "none"

align(alloc_size) ==
    IF alloc_size % ALIGNMENT # 0
    THEN alloc_size + (ALIGNMENT - (alloc_size % ALIGNMENT))
    ELSE alloc_size

\* ---- coalesce_blocks ----
\* the forward loop stopped after its first round
coalesce_forward_once(s, header, seen) ==
    LET next == GetNext(s.mem, header)
    IN  IF next = NULL THEN s
        ELSE IF HeaderFault(s, next) # "none" THEN Stop(s, HeaderFault(s, next))
        ELSE IF ~GetFree(s.mem, next) THEN s
        ELSE LET m1 == SetSize(s.mem, header,
                               GetSize(s.mem, header) + GetSize(s.mem, next))
                 m2 == SetNext(m1, header, GetNext(m1, next))
             IN  [s EXCEPT !.mem = m2]

\* the forward loop; seen holds the successors already absorbed: absorbing
\* one of them again means the loop never ends
RECURSIVE coalesce_forward(_, _, _)
coalesce_forward(s, header, seen) ==
    LET next == GetNext(s.mem, header)
    IN  IF next = NULL THEN s
        ELSE IF HeaderFault(s, next) # "none" THEN Stop(s, HeaderFault(s, next))
        ELSE IF ~GetFree(s.mem, next) THEN s
        ELSE IF next \in seen THEN Stop(s, "hang")
        ELSE LET m1 == SetSize(s.mem, header,
                               GetSize(s.mem, header) + GetSize(s.mem, next))
                 m2 == SetNext(m1, header, GetNext(m1, next))
             IN  coalesce_forward([s EXCEPT !.mem = m2], header,
                                  seen \cup {next})

\* the scan for the predecessor of header: [fault, prev]
RECURSIVE find_prev(_, _, _, _, _)
find_prev(s, header, curr, prev, seen) ==
    IF curr = NULL \/ curr = header THEN [fault |-> "none", prev |-> prev]
    ELSE IF ~InArena(curr) THEN [fault |-> "wild", prev |-> prev]
    ELSE IF curr \in seen THEN [fault |-> "hang", prev |-> prev]
    ELSE find_prev(s, header, GetNext(s.mem, curr), curr, seen \cup {curr})

coalesce_backward(s, header) ==
    LET r == find_prev(s, header, s.first_block, NULL, {})
        prev == r.prev
    IN  IF r.fault # "none" THEN Stop(s, r.fault)
        ELSE IF prev = NULL THEN s
        ELSE IF HeaderFault(s, prev) # "none" THEN Stop(s, HeaderFault(s, prev))
        ELSE IF ~GetFree(s.mem, prev) THEN s
        ELSE LET m1 == SetSize(s.mem, prev,
                               GetSize(s.mem, prev) + GetSize(s.mem, header))
                 m2 == SetNext(m1, prev, GetNext(m1, header))
             IN  [s EXCEPT !.mem = m2]

\* coalesce_blocks without its backward half
coalesce_blocks_forward_only(s, header) ==
    IF ~InArena(header) THEN Stop(s, "wild")
    ELSE coalesce_forward(s, header, {})

\* coalesce_blocks without its forward loop
coalesce_blocks_backward_only(s, header) ==
    IF ~InArena(header) THEN Stop(s, "wild")
    ELSE coalesce_backward(s, header)

coalesce_blocks(s, header) ==
    IF ~InArena(header) THEN Stop(s, "wild")
    ELSE LET s1 == coalesce_forward(s, header, {})
         IN  IF s1.fault # "none" THEN s1 ELSE coalesce_backward(s1, header)

\* split_block with the second block placed a header further on
split_block_past_header(s, block_ptr, total_size) ==
    LET aligned_size == align(total_size)
        secondBox == block_ptr + aligned_size + SizeofBlockHeader
        m1 == SetSize(s.mem, secondBox,
                      GetSize(s.mem, block_ptr) - aligned_size)
        m2 == SetFree(m1, secondBox, TRUE)
        m3 == SetNext(m2, secondBox, GetNext(m2, block_ptr))
        m4 == SetSize(m3, block_ptr, aligned_size)
        m5 == SetNext(m4, block_ptr, secondBox)
        m6 == SetFree(m5, block_ptr, FALSE)
    IN  IF ~InArena(block_ptr) \/ ~InArena(secondBox) THEN Stop(s, "wild")
        ELSE Return([s EXCEPT !.mem = m6], block_ptr + SizeofBlockHeader)

\* ---- split_block ----
split_block(s, block_ptr, total_size) ==
    LET aligned_size == align(total_size)
        secondBox == block_ptr + aligned_size
    IN  IF block_ptr = NULL
        THEN Return(SetStatus(s, "ALLOC_INVALID_OPERATION"), NULL)
        ELSE IF ~InArena(block_ptr) THEN Stop(s, "wild")
        ELSE IF ULt(GetSize(s.mem, block_ptr),
                    aligned_size + SizeofBlockHeader + ALIGNMENT)
        THEN Return(SetStatus(s, "ALLOC_ERROR"), NULL)
        ELSE IF ~InArena(secondBox) THEN Stop(s, "wild")
        ELSE LET m1 == SetSize(s.mem, secondBox,
                               GetSize(s.mem, block_ptr) - aligned_size)
             IN  IF ULe(GetSize(m1, secondBox), SizeofBlockHeader)
                 THEN Return(SetStatus([s EXCEPT !.mem = m1], "ALLOC_ERROR"),
                             NULL)
                 ELSE LET m2 == SetFree(m1, secondBox, TRUE)
                          m3 == SetNext(m2, secondBox, GetNext(m2, block_ptr))
                          m4 == SetSize(m3, block_ptr, aligned_size)
                          m5 == SetNext(m4, block_ptr, secondBox)
                          m6 == SetFree(m5, block_ptr, FALSE)
                      IN  Return([s EXCEPT !.mem = m6],
                                 block_ptr + SizeofBlockHeader)

\* find_fit_first that passes over a block of exactly the size asked
RECURSIVE find_fit_first_from_strict(_, _, _, _)
find_fit_first_from_strict(s, requested_size, curr_block, seen) ==
    IF curr_block = NULL
    THEN Return(SetStatus(s, "ALLOC_OUT_OF_MEMORY"), NULL)
    ELSE IF HeaderFault(s, curr_block) # "none"
    THEN Stop(s, HeaderFault(s, curr_block))
    ELSE IF GetFree(s.mem, curr_block)
            /\ UGt(GetSize(s.mem, curr_block), requested_size)
    THEN Return(SetStatus(s, "ALLOC_SUCCESS"), curr_block)
    ELSE IF curr_block \in seen THEN Stop(s, "hang")
    ELSE find_fit_first_from_strict(s, requested_size,
                                    GetNext(s.mem, curr_block),
                                    seen \cup {curr_block})

\* find_fit_best that takes the last of the smallest blocks
RECURSIVE find_fit_best_from_last(_, _, _, _, _, _)
find_fit_best_from_last(s, requested_size, curr_block, best_block, best_size, seen) ==
    IF curr_block = NULL
    THEN IF best_block # NULL
         THEN Return(SetStatus(s, "ALLOC_SUCCESS"), best_block)
         ELSE Return(SetStatus(s, "ALLOC_OUT_OF_MEMORY"), NULL)
    ELSE IF HeaderFault(s, curr_block) # "none"
    THEN Stop(s, HeaderFault(s, curr_block))
    ELSE IF curr_block \in seen THEN Stop(s, "hang")
    ELSE LET size == GetSize(s.mem, curr_block)
             better == /\ GetFree(s.mem, curr_block)
                       /\ UGe(size, requested_size)
                       /\ ULe(size, best_size)
         IN  find_fit_best_from_last(s, requested_size,
                                     GetNext(s.mem, curr_block),
                                     IF better THEN curr_block ELSE best_block,
                                     IF better THEN size ELSE best_size,
                                     seen \cup {curr_block})

\* find_fit_worst that takes the last of the largest blocks
RECURSIVE find_fit_worst_from_last(_, _, _, _, _)
find_fit_worst_from_last(s, requested_size, curr_block, worst_block, seen) ==
    IF curr_block = NULL
    THEN IF worst_block # NULL
         THEN Return(SetStatus(s, "ALLOC_SUCCESS"), worst_block)
         ELSE Return(SetStatus(s, "ALLOC_OUT_OF_MEMORY"), NULL)
    ELSE IF HeaderFault(s, curr_block) # "none"
    THEN Stop(s, HeaderFault(s, curr_block))
    ELSE IF curr_block \in seen THEN Stop(s, "hang")
    ELSE LET size == GetSize(s.mem, curr_block)
             worse == /\ GetFree(s.mem, curr_block)
                      /\ UGe(size, requested_size)
                      /\ (worst_block = NULL
                          \/ ULe(GetSize(s.mem, worst_block), size))
         IN  find_fit_worst_from_last(s, requested_size,
                                      GetNext(s.mem, curr_block),
                                      IF worse THEN curr_block ELSE worst_block,
                                      seen \cup {curr_block})

\* ---- the placement policies ----
RECURSIVE find_fit_first_from(_, _, _, _)
find_fit_first_from(s, requested_size, curr_block, seen) ==
    IF curr_block = NULL
    THEN Return(SetStatus(s, "ALLOC_OUT_OF_MEMORY"), NULL)
    ELSE IF HeaderFault(s, curr_block) # "none"
    THEN Stop(s, HeaderFault(s, curr_block))
    ELSE IF GetFree(s.mem, curr_block)
            /\ UGe(GetSize(s.mem, curr_block), requested_size)
    THEN Return(SetStatus(s, "ALLOC_SUCCESS"), curr_block)
    ELSE IF curr_block \in seen THEN Stop(s, "hang")
    ELSE find_fit_first_from(s, requested_size, GetNext(s.mem, curr_block),
                             seen \cup {curr_block})

\* find_fit_first that marks the block it returns as taken
find_fit_first_taking(s, requested_size) ==
    LET r == find_fit_first_from(s, requested_size, s.first_block, {})
    IN  IF r.fault = "none" /\ r.ret # NULL
        THEN [r EXCEPT !.mem = SetFree(r.mem, r.ret, FALSE)]
        ELSE r

find_fit_first(s, requested_size) ==
    find_fit_first_from(s, requested_size, s.first_block, {})

\* best_block = NULL for none yet
RECURSIVE find_fit_best_from(_, _, _, _, _, _)
find_fit_best_from(s, requested_size, curr_block, best_block, best_size, seen) ==
    IF curr_block = NULL
    THEN IF best_block # NULL
         THEN Return(SetStatus(s, "ALLOC_SUCCESS"), best_block)
         ELSE Return(SetStatus(s, "ALLOC_OUT_OF_MEMORY"), NULL)
    ELSE IF HeaderFault(s, curr_block) # "none"
    THEN Stop(s, HeaderFault(s, curr_block))
    ELSE IF curr_block \in seen THEN Stop(s, "hang")
    ELSE LET size == GetSize(s.mem, curr_block)
             better == /\ GetFree(s.mem, curr_block)
                       /\ UGe(size, requested_size)
                       /\ ULt(size, best_size)
         IN  find_fit_best_from(s, requested_size, GetNext(s.mem, curr_block),
                                IF better THEN curr_block ELSE best_block,
                                IF better THEN size ELSE best_size,
                                seen \cup {curr_block})

find_fit_best(s, requested_size) ==
    find_fit_best_from(s, requested_size, s.first_block, NULL, SIZE_MAX, {})

RECURSIVE find_fit_worst_from(_, _, _, _, _)
find_fit_worst_from(s, requested_size, curr_block, worst_block, seen) ==
    IF curr_block = NULL
    THEN IF worst_block # NULL
         THEN Return(SetStatus(s, "ALLOC_SUCCESS"), worst_block)
         ELSE Return(SetStatus(s, "ALLOC_OUT_OF_MEMORY"), NULL)
    ELSE IF HeaderFault(s, curr_block) # "none"
    THEN Stop(s, HeaderFault(s, curr_block))
    ELSE IF curr_block \in seen THEN Stop(s, "hang")
    ELSE LET size == GetSize(s.mem, curr_block)
             worse == /\ GetFree(s.mem, curr_block)
                      /\ UGe(size, requested_size)
                      /\ (worst_block = NULL
                          \/ ULt(GetSize(s.mem, worst_block), size))
         IN  find_fit_worst_from(s, requested_size,
                                 GetNext(s.mem, curr_block),
                                 IF worse THEN curr_block ELSE worst_block,
                                 seen \cup {curr_block})

find_fit_worst(s, requested_size) ==
    find_fit_worst_from(s, requested_size, s.first_block, NULL, {})

\* ---- heap_alloc ----
\* the walk to the tail of the chain: [fault, tail]
RECURSIVE find_tail(_, _, _)
find_tail(s, curr_block, seen) ==
    IF ~InArena(curr_block) THEN [fault |-> "wild", tail |-> curr_block]
    ELSE IF curr_block \in seen THEN [fault |-> "hang", tail |-> curr_block]
    ELSE IF GetNext(s.mem, curr_block) = NULL
    THEN [fault |-> "none", tail |-> curr_block]
    ELSE find_tail(s, GetNext(s.mem, curr_block), seen \cup {curr_block})

\* heap_alloc_reuse without found->free = false
heap_alloc_reuse_unmarked(s, found, total_size) ==
    LET s2 == IF UGe(GetSize(s.mem, found),
                     total_size + SizeofBlockHeader + ALIGNMENT)
              THEN split_block(s, found, total_size)
              ELSE s
    IN  IF s2.fault # "none" THEN s2
        ELSE Return(SetStatus(s2, "ALLOC_SUCCESS"), found + SizeofBlockHeader)

\* heap_alloc_reuse that never splits the block it takes
heap_alloc_reuse_whole(s, found, total_size) ==
    LET s1 == [s EXCEPT !.mem = SetFree(s.mem, found, FALSE)]
    IN  Return(SetStatus(s1, "ALLOC_SUCCESS"), found + SizeofBlockHeader)

\* a free block was found: take it, split it if it is large enough
heap_alloc_reuse(s, found, total_size) ==
    LET s1 == [s EXCEPT !.mem = SetFree(s.mem, found, FALSE)]
        s2 == IF UGe(GetSize(s1.mem, found),
                     total_size + SizeofBlockHeader + ALIGNMENT)
              THEN split_block(s1, found, total_size)
              ELSE s1
    IN  IF s2.fault # "none" THEN s2
        ELSE Return(SetStatus(s2, "ALLOC_SUCCESS"), found + SizeofBlockHeader)

\* heap_alloc_extend with the capacity test on heap_size alone
heap_alloc_extend_late_check(s, total_size) ==
    LET new_block == heap + s.heap_size
        m1 == SetSize(s.mem, new_block, total_size)
        m2 == SetFree(m1, new_block, FALSE)
        m3 == SetNext(m2, new_block, NULL)
        t == find_tail([s EXCEPT !.mem = m3], s.first_block, {})
    IN  IF UGt(s.heap_size, HEAP_CAPACITY)
        THEN Return(SetStatus(s, "ALLOC_OUT_OF_MEMORY"), NULL)
        ELSE IF s.first_block = NULL
        THEN Return(SetStatus([s EXCEPT !.mem = m3,
                                        !.first_block = new_block,
                                        !.heap_size = @ + total_size],
                              "ALLOC_SUCCESS"),
                    new_block + SizeofBlockHeader)
        ELSE IF t.fault # "none" THEN Stop([s EXCEPT !.mem = m3], t.fault)
        ELSE Return(SetStatus([s EXCEPT !.mem = SetNext(m3, t.tail, new_block),
                                        !.heap_size = @ + total_size],
                              "ALLOC_SUCCESS"),
                    new_block + SizeofBlockHeader)

\* no free block fits: a new block at the water-mark
heap_alloc_extend(s, total_size) ==
    LET result == heap + s.heap_size
        new_block == result
        m1 == SetSize(s.mem, new_block, total_size)
        m2 == SetFree(m1, new_block, FALSE)
        m3 == SetNext(m2, new_block, NULL)
        t == find_tail([s EXCEPT !.mem = m3], s.first_block, {})
    IN  IF UGt(s.heap_size + total_size, HEAP_CAPACITY)
        THEN Return(SetStatus(s, "ALLOC_OUT_OF_MEMORY"), NULL)
        ELSE IF result % ALIGNMENT # 0
        THEN Return(SetStatus(s, "ALLOC_ALIGNMENT_ERROR"), NULL)
        ELSE IF s.first_block = NULL
        THEN Return(SetStatus([s EXCEPT !.mem = m3,
                                        !.first_block = new_block,
                                        !.heap_size = @ + total_size],
                              "ALLOC_SUCCESS"),
                    new_block + SizeofBlockHeader)
        ELSE IF t.fault # "none" THEN Stop([s EXCEPT !.mem = m3], t.fault)
        ELSE Return(SetStatus([s EXCEPT !.mem = SetNext(m3, t.tail, new_block),
                                        !.heap_size = @ + total_size],
                              "ALLOC_SUCCESS"),
                    new_block + SizeofBlockHeader)

\* find_fit looking for a block one ALIGNMENT larger than asked
find_fit_one_unit_more(s, strategy, total_size) ==
    CASE strategy = "FIRST_FIT" -> find_fit_first(s, total_size + ALIGNMENT)
      [] strategy = "BEST_FIT" -> find_fit_best(s, total_size + ALIGNMENT)
      [] strategy = "WORST_FIT" -> find_fit_worst(s, total_size + ALIGNMENT)
      [] OTHER -> Return(SetStatus(s, "ALLOC_ERROR"), NULL)

\* the switch of heap_alloc on current_strategy
find_fit(s, strategy, total_size) ==
    CASE strategy = "FIRST_FIT" -> find_fit_first(s, total_size)
      [] strategy = "BEST_FIT" -> find_fit_best(s, total_size)
      [] strategy = "WORST_FIT" -> find_fit_worst(s, total_size)
      [] OTHER -> Return(SetStatus(s, "ALLOC_ERROR"), NULL)

\* heap_alloc without the test for a request of zero bytes
heap_alloc_no_zero_test(s, requested_bytes) ==
    LET total_size == align(requested_bytes + SizeofBlockHeader)
        f == find_fit(s, s.strategy, total_size)
    IN  IF s.strategy \notin Strategies THEN f
        ELSE IF f.fault # "none" THEN f
        ELSE IF f.ret # NULL THEN heap_alloc_reuse(f, f.ret, total_size)
        ELSE heap_alloc_extend(f, total_size)

\* heap_alloc that extends the arena whether or not a free block fits
heap_alloc_no_reuse(s, requested_bytes) ==
    LET total_size == align(requested_bytes + SizeofBlockHeader)
        f == find_fit(s, s.strategy, total_size)
    IN  IF requested_bytes = 0 THEN Return(SetStatus(s, "ALLOC_ERROR"), NULL)
        ELSE IF s.strategy \notin Strategies THEN f
        ELSE IF f.fault # "none" THEN f
        ELSE heap_alloc_extend(f, total_size)

heap_alloc(s, requested_bytes) ==
    LET total_size == align(requested_bytes + SizeofBlockHeader)
        f == find_fit(s, s.strategy, total_size)
    IN  IF requested_bytes = 0 THEN Return(SetStatus(s, "ALLOC_ERROR"), NULL)
        ELSE IF s.strategy \notin Strategies THEN f
        ELSE IF f.fault # "none" THEN f
        ELSE IF f.ret # NULL THEN heap_alloc_reuse(f, f.ret, total_size)
        ELSE heap_alloc_extend(f, total_size)

\* validate_pointer with the water-mark itself taken as inside
validate_pointer_to_end(s, ptr) ==
    LET start == heap
        end == s.heap_size
    IN  ptr >= start /\ ptr <= start + end

\* ---- validate_pointer ----
validate_pointer(s, ptr) ==
    LET start == heap
        end == s.heap_size
    IN  ptr >= start /\ ptr < start + end

\* heap_free without header->free = true
heap_free_unmarked(s, ptr) ==
    LET header == ptr - SizeofBlockHeader
    IN  IF ptr = NULL THEN SetStatus(s, "ALLOC_INVALID_FREE")
        ELSE IF ~validate_pointer(s, ptr) THEN SetStatus(s, "ALLOC_HEAP_ERROR")
        ELSE IF HeaderFault(s, header) # "none"
        THEN Stop(s, HeaderFault(s, header))
        ELSE IF GetFree(s.mem, header) THEN SetStatus(s, "ALLOC_INVALID_FREE")
        ELSE SetStatus(s, "ALLOC_SUCCESS")

\* ---- heap_free ----
heap_free(s, ptr) ==
    LET header == ptr - SizeofBlockHeader
        s1 == coalesce_blocks([s EXCEPT !.mem = SetFree(s.mem, header, TRUE)],
                              header)
    IN  IF ptr = NULL THEN SetStatus(s, "ALLOC_INVALID_FREE")
        ELSE IF ~validate_pointer(s, ptr) THEN SetStatus(s, "ALLOC_HEAP_ERROR")
        ELSE IF HeaderFault(s, header) # "none"
        THEN Stop(s, HeaderFault(s, header))
        ELSE IF GetFree(s.mem, header) THEN SetStatus(s, "ALLOC_INVALID_FREE")
        ELSE IF s1.fault # "none" THEN s1
        ELSE SetStatus(s1, "ALLOC_SUCCESS")

\* ---- heap_realloc ----
\* the block at curr is cut down to total_new_size and the rest made a free
\* block (the code of both in-place cases)
realloc_split(m, curr, total_new_size) ==
    LET new_block == curr + total_new_size
        m1 == SetSize(m, new_block, GetSize(m, curr) - total_new_size)
        m2 == SetFree(m1, new_block, TRUE)
        m3 == SetNext(m2, new_block, GetNext(m2, curr))
        m4 == SetSize(m3, curr, total_new_size)
    IN  SetNext(m4, curr, new_block)

\* case A: the block is already large enough
realloc_shrink(s, ptr, curr, total_new_size) ==
    LET split == UGt(GetSize(s.mem, curr),
                     total_new_size + SizeofBlockHeader + ALIGNMENT)
    IN  IF split /\ ~InArena(curr + total_new_size) THEN Stop(s, "wild")
        ELSE Return(SetStatus([s EXCEPT !.mem =
                                  IF split
                                  THEN realloc_split(@, curr, total_new_size)
                                  ELSE @],
                              "ALLOC_SUCCESS"), ptr)

\* realloc_absorb that leaves the combined block whole
realloc_absorb_no_split(s, ptr, curr, total_new_size) ==
    LET next == GetNext(s.mem, curr)
        combined_size == GetSize(s.mem, curr) + GetSize(s.mem, next)
                           + SizeofBlockHeader
        m1 == SetSize(s.mem, curr, combined_size)
        m2 == SetNext(m1, curr, GetNext(m1, next))
    IN  Return(SetStatus([s EXCEPT !.mem = m2], "ALLOC_SUCCESS"), ptr)

\* case B: the free successor is absorbed
realloc_absorb(s, ptr, curr, total_new_size) ==
    LET next == GetNext(s.mem, curr)
        combined_size == GetSize(s.mem, curr) + GetSize(s.mem, next)
                           + SizeofBlockHeader
        m1 == SetSize(s.mem, curr, combined_size)
        m2 == SetNext(m1, curr, GetNext(m1, next))
        split == UGt(GetSize(m2, curr),
                     total_new_size + SizeofBlockHeader + ALIGNMENT)
    IN  IF split /\ ~InArena(curr + total_new_size)
        THEN Stop([s EXCEPT !.mem = m2], "wild")
        ELSE Return(SetStatus([s EXCEPT !.mem =
                                  IF split
                                  THEN realloc_split(m2, curr, total_new_size)
                                  ELSE m2],
                              "ALLOC_SUCCESS"), ptr)

\* memcpy(dst, src, n) between word-aligned addresses. Of the word that holds
\* the last n % 8 bytes the low bytes are copied (the words of the arena are
\* below 2^31 where payloads are copied, so four bytes or more are the word)
memcpy(m, dst, src, n) ==
    LET whole == n - (n % 8)
        k == n % 8
        from(a) == Load(m, (a - dst) + src)
        copied == {(x - src) + dst :
                     x \in {y \in DOMAIN m : y >= src /\ y < src + whole}}
        kept == {x \in DOMAIN m : x < dst \/ x >= dst + whole}
        m1 == [a \in kept \cup copied |->
                 IF a \in copied THEN from(a) ELSE m[a]]
        d == Load(m1, dst + whole)
        v == Load(m, src + whole)
    IN  IF k = 0 THEN m1
        ELSE IF k >= 4 THEN Store(m1, dst + whole, v)
        ELSE Store(m1, dst + whole,
                   (d - (d % (256 ^ k))) + (v % (256 ^ k)))

\* case C: a new block, the payload copied, the old block freed. memcpy on
\* ranges that overlap or leave the arena has no defined result.
\* f is the state heap_free(ptr) leaves
realloc_release(f, new_ptr) ==
    IF f.fault # "none" THEN f
    ELSE Return(SetStatus(f, "ALLOC_SUCCESS"), new_ptr)

\* a is the state heap_alloc left, new_ptr the payload it returned
realloc_copy(a, ptr, new_ptr, copy_size) ==
    IF copy_size < 0 \/ ptr + copy_size > heap + HEAP_CAPACITY
          \/ new_ptr + copy_size > heap + HEAP_CAPACITY
    THEN Stop(a, "wild")
    ELSE IF new_ptr < ptr + copy_size /\ ptr < new_ptr + copy_size
    THEN Stop(a, "overlap")
    ELSE realloc_release(
             heap_free([a EXCEPT !.mem = memcpy(@, new_ptr, ptr, copy_size)],
                       ptr),
             new_ptr)

\* copy_size: the smaller of new_size and the old payload, the size read
\* after heap_alloc has returned
realloc_copy_size(m, curr, new_size) ==
    LET old_payload == GetSize(m, curr) - SizeofBlockHeader
    IN  IF ULt(new_size, old_payload) THEN new_size ELSE old_payload

realloc_moved(a, ptr, new_size) ==
    IF a.fault # "none" THEN a
    ELSE IF a.ret = NULL
    THEN Return(SetStatus(a, "ALLOC_OUT_OF_MEMORY"), NULL)
    ELSE realloc_copy(a, ptr, a.ret,
                      realloc_copy_size(a.mem, ptr - SizeofBlockHeader,
                                        new_size))

realloc_move(s, ptr, new_size) ==
    realloc_moved(heap_alloc(s, new_size), ptr, new_size)

\* heap_realloc that keeps the block when the new size is zero
heap_realloc_zero_keeps(s, ptr, new_size) ==
    IF ptr = NULL THEN heap_alloc(s, new_size)
    ELSE IF new_size = 0 THEN Return(s, NULL)
    ELSE IF ~validate_pointer(s, ptr)
    THEN Return(SetStatus(s, "ALLOC_HEAP_ERROR"), NULL)
    ELSE realloc_move(s, ptr, new_size)

\* heap_realloc without the call of validate_pointer
heap_realloc_unvalidated(s, ptr, new_size) ==
    LET curr == ptr - SizeofBlockHeader
        total_new_size == align(new_size + SizeofBlockHeader)
        next == GetNext(s.mem, curr)
    IN  IF ptr = NULL THEN heap_alloc(s, new_size)
        ELSE IF new_size = 0 THEN Return(heap_free(s, ptr), NULL)
        ELSE IF ~InArena(curr) THEN Stop(s, "wild")
        ELSE IF UGe(GetSize(s.mem, curr), total_new_size)
        THEN realloc_shrink(s, ptr, curr, total_new_size)
        ELSE IF next # NULL /\ HeaderFault(s, next) # "none"
        THEN Stop(s, HeaderFault(s, next))
        ELSE IF /\ next # NULL
                /\ GetFree(s.mem, next)
                /\ UGe(GetSize(s.mem, curr) + GetSize(s.mem, next)
                         + SizeofBlockHeader, total_new_size)
        THEN realloc_absorb(s, ptr, curr, total_new_size)
        ELSE realloc_move(s, ptr, new_size)

heap_realloc(s, ptr, new_size) ==
    LET curr == ptr - SizeofBlockHeader
        total_new_size == align(new_size + SizeofBlockHeader)
        next == GetNext(s.mem, curr)
    IN  IF ptr = NULL THEN heap_alloc(s, new_size)
        ELSE IF new_size = 0 THEN Return(heap_free(s, ptr), NULL)
        ELSE IF ~validate_pointer(s, ptr)
        THEN Return(SetStatus(s, "ALLOC_HEAP_ERROR"), NULL)
        ELSE IF ~InArena(curr) THEN Stop(s, "wild")
        ELSE IF UGe(GetSize(s.mem, curr), total_new_size)
        THEN realloc_shrink(s, ptr, curr, total_new_size)
        ELSE IF next # NULL /\ HeaderFault(s, next) # "none"
        THEN Stop(s, HeaderFault(s, next))
        ELSE IF /\ next # NULL
                /\ GetFree(s.mem, next)
                /\ UGe(GetSize(s.mem, curr) + GetSize(s.mem, next)
                         + SizeofBlockHeader, total_new_size)
        THEN realloc_absorb(s, ptr, curr, total_new_size)
        ELSE realloc_move(s, ptr, new_size)

\* ---- check_heap_integrity ----
\* check_heap_integrity that accepts a size that is no multiple of ALIGNMENT
RECURSIVE check_heap_integrity_from_any_size(_, _, _)
check_heap_integrity_from_any_size(s, curr_block, visited) ==
    LET heap_start == s.first_block
        heap_end == heap_start + HEAP_CAPACITY
        size == GetSize(s.mem, curr_block)
        curr_block_end == curr_block + size
        next == GetNext(s.mem, curr_block)
    IN  IF curr_block = NULL THEN Return(SetStatus(s, "ALLOC_HEAP_OK"), TRUE)
        ELSE IF curr_block \in visited
        THEN Return(SetStatus(s, "ALLOC_HEAP_ERROR"), FALSE)
        ELSE IF Cardinality(visited) >= HEAP_CAPACITY \div SizeofBlockHeader
        THEN Return(SetStatus(s, "ALLOC_HEAP_ERROR"), FALSE)
        ELSE IF ~InArena(curr_block) THEN Stop(s, "wild")
        ELSE IF size = 0
        THEN Return(SetStatus(s, "ALLOC_ALIGNMENT_ERROR"), FALSE)
        ELSE IF curr_block < heap_start \/ curr_block_end > heap_end
        THEN Return(SetStatus(s, "ALLOC_HEAP_ERROR"), FALSE)
        ELSE IF HeaderFault(s, curr_block) # "none"
        THEN Stop(s, HeaderFault(s, curr_block))
        ELSE IF GetFree(s.mem, curr_block) /\ next # NULL
                /\ HeaderFault(s, next) # "none"
        THEN Stop(s, HeaderFault(s, next))
        ELSE IF GetFree(s.mem, curr_block) /\ next # NULL
                /\ GetFree(s.mem, next)
        THEN Return(SetStatus(s, "ALLOC_HEAP_ERROR"), FALSE)
        ELSE check_heap_integrity_from_any_size(s, next,
                                                visited \cup {curr_block})

\* ret is the bool the function returns
RECURSIVE check_heap_integrity_from(_, _, _)
check_heap_integrity_from(s, curr_block, visited) ==
    LET heap_start == s.first_block
        heap_end == heap_start + HEAP_CAPACITY
        size == GetSize(s.mem, curr_block)
        curr_block_end == curr_block + size
        next == GetNext(s.mem, curr_block)
    IN  IF curr_block = NULL THEN Return(SetStatus(s, "ALLOC_HEAP_OK"), TRUE)
        ELSE IF curr_block \in visited
        THEN Return(SetStatus(s, "ALLOC_HEAP_ERROR"), FALSE)
        ELSE IF Cardinality(visited) >= HEAP_CAPACITY \div SizeofBlockHeader
        THEN Return(SetStatus(s, "ALLOC_HEAP_ERROR"), FALSE)
        ELSE IF ~InArena(curr_block) THEN Stop(s, "wild")
        ELSE IF size = 0 \/ size % ALIGNMENT # 0
        THEN Return(SetStatus(s, "ALLOC_ALIGNMENT_ERROR"), FALSE)
        ELSE IF curr_block < heap_start \/ curr_block_end > heap_end
        THEN Return(SetStatus(s, "ALLOC_HEAP_ERROR"), FALSE)
        ELSE IF HeaderFault(s, curr_block) # "none"
        THEN Stop(s, HeaderFault(s, curr_block))
        ELSE IF GetFree(s.mem, curr_block) /\ next # NULL
                /\ HeaderFault(s, next) # "none"
        THEN Stop(s, HeaderFault(s, next))
        ELSE IF GetFree(s.mem, curr_block) /\ next # NULL
                /\ GetFree(s.mem, next)
        THEN Return(SetStatus(s, "ALLOC_HEAP_ERROR"), FALSE)
        ELSE check_heap_integrity_from(s, next, visited \cup {curr_block})

check_heap_integrity(s) == check_heap_integrity_from(s, s.first_block, {})

\* ---- defragment_heap ----
\* defragment_heap that gives up at the first block it cannot merge
RECURSIVE defragment_from_first_pair(_, _, _, _)
defragment_from_first_pair(s, curr_block, seen, merged) ==
    LET next == GetNext(s.mem, curr_block)
        c == coalesce_blocks(s, curr_block)
    IN  IF curr_block = NULL THEN s
        ELSE IF ~InArena(curr_block) THEN Stop(s, "wild")
        ELSE IF next = NULL THEN s
        ELSE IF GetFree(s.mem, curr_block) /\ GetFree(s.mem, next)
        THEN IF c.fault # "none" THEN c
             ELSE IF curr_block \in merged THEN Stop(c, "hang")
             ELSE defragment_from_first_pair(c, curr_block, seen,
                                             merged \cup {curr_block})
        ELSE s

\* seen holds the blocks the walk has left, merged the blocks that have been
\* coalesced: coming back to either means the loop never ends
RECURSIVE defragment_from(_, _, _, _)
defragment_from(s, curr_block, seen, merged) ==
    LET next == GetNext(s.mem, curr_block)
        c == coalesce_blocks(s, curr_block)
    IN  IF curr_block = NULL THEN s
        ELSE IF ~InArena(curr_block) THEN Stop(s, "wild")
        ELSE IF next = NULL THEN s
        ELSE IF HeaderFault(s, curr_block) # "none"
        THEN Stop(s, HeaderFault(s, curr_block))
        ELSE IF GetFree(s.mem, curr_block) /\ HeaderFault(s, next) # "none"
        THEN Stop(s, HeaderFault(s, next))
        ELSE IF GetFree(s.mem, curr_block) /\ GetFree(s.mem, next)
        THEN IF c.fault # "none" THEN c
             ELSE IF curr_block \in merged THEN Stop(c, "hang")
             ELSE defragment_from(c, curr_block, seen,
                                  merged \cup {curr_block})
        ELSE IF curr_block \in seen THEN Stop(s, "hang")
        ELSE defragment_from(s, next, seen \cup {curr_block}, merged)

\* defragment_heap that walks the chain and merges nothing
defragment_heap_walk_only(s) ==
    LET r == find_prev(s, NULL, s.first_block, NULL, {})
    IN  IF r.fault # "none" THEN Stop(s, r.fault) ELSE s

defragment_heap(s) == defragment_from(s, s.first_block, {}, {})

\* ---- the chain, as the readers walk it ----
\* [nodes, end]: the headers met from curr_block on, and why the walk stopped:
\* "null" at the end of the chain, "cycle" at a header met before, "wild" at
\* a pointer that leaves the arena
RECURSIVE Walk(_, _, _)
Walk(m, curr_block, nodes) ==
    IF curr_block = NULL THEN [nodes |-> nodes, end |-> "null"]
    ELSE IF ~InArena(curr_block) THEN [nodes |-> nodes, end |-> "wild"]
    ELSE IF \E i \in 1..Len(nodes) : nodes[i] = curr_block
    THEN [nodes |-> nodes, end |-> "cycle"]
    ELSE Walk(m, GetNext(m, curr_block), Append(nodes, curr_block))

ChainOf(m, first) == Walk(m, first, <<>>)

RECURSIVE SumSizes(_, _, _)
SumSizes(m, nodes, i) ==
    IF i > Len(nodes) THEN 0
    ELSE GetSize(m, nodes[i]) + SumSizes(m, nodes, i + 1)

\* ---- the metric readers (defined when the chain ends) ----
get_used_heap_size(m, first) == SumSizes(m, ChainOf(m, first).nodes, 1)

get_alloc_count(m, first) ==
    LET c == ChainOf(m, first).nodes
    IN  Cardinality({i \in 1..Len(c) : ~GetFree(m, c[i])})

get_free_block_count(m, first) ==
    LET c == ChainOf(m, first).nodes
    IN  Cardinality({i \in 1..Len(c) : GetFree(m, c[i])})

\* ---- the calls a client makes ----
Cur == [mem |-> mem, first_block |-> first_block, heap_size |-> heap_size,
        last_status |-> last_status, strategy |-> current_strategy,
        fault |-> "none", ret |-> NULL]

Chain == ChainOf(mem, first_block)

Forget(l, p) == [x \in (DOMAIN l) \ {p} |-> l[x]]
Hold(l, p, n) == [x \in (DOMAIN l) \cup {p} |-> IF x = p THEN n ELSE l[x]]

\* pointers that lie outside [heap, heap + heap_size)
OutsidePointers == {heap - 8, heap + heap_size}

Changes(s) ==
    s.mem # mem \/ s.first_block # first_block \/ s.heap_size # heap_size

Commit(s) ==
    /\ mem' = s.mem
    /\ first_block' = s.first_block
    /\ heap_size' = s.heap_size
    /\ last_status' = s.last_status
    /\ fault' = s.fault
    /\ calls' = IF Changes(s) THEN calls + 1 ELSE calls
    /\ UNCHANGED <<heap, current_strategy>>

Init ==
    /\ heap \in HeapBases
    /\ mem = [a \in {} |-> 0]
    /\ first_block = NULL
    /\ heap_size = 0
    /\ current_strategy = "FIRST_FIT"
    /\ last_status = "ALLOC_SUCCESS"
    /\ live = [p \in {} |-> 0]
    /\ freed = {}
    /\ op = [name |-> "reset", ptr |-> NULL, n |-> 0, ret |-> NULL]
    /\ calls = 0
    /\ fault = "none"

HeapAlloc(n) ==
    LET s == heap_alloc(Cur, n)
    IN  /\ fault = "none"
        /\ Commit(s)
        /\ live' = IF s.fault = "none" /\ s.ret # NULL
                   THEN Hold(live, s.ret, n) ELSE live
        /\ freed' = IF s.fault = "none" THEN freed \ {s.ret} ELSE freed
        /\ op' = [name |-> "heap_alloc", ptr |-> NULL, n |-> n, ret |-> s.ret]

HeapFree(p) ==
    LET s == heap_free(Cur, p)
    IN  /\ fault = "none"
        /\ Commit(s)
        /\ live' = Forget(live, p)
        /\ freed' = IF p \in DOMAIN live THEN freed \cup {p} ELSE freed
        /\ op' = [name |-> "heap_free", ptr |-> p, n |-> 0, ret |-> NULL]

HeapRealloc(p, n) ==
    LET s == heap_realloc(Cur, p, n)
    IN  /\ fault = "none"
        /\ Commit(s)
        /\ live' = IF s.fault # "none" THEN live
                   ELSE IF n = 0 /\ p # NULL THEN Forget(live, p)
                   ELSE IF s.ret # NULL THEN Hold(Forget(live, p), s.ret, n)
                   ELSE live
        /\ freed' = IF s.fault # "none" THEN freed
                    ELSE IF n = 0 \/ s.ret # NULL
                    THEN (freed \cup ({p} \cap DOMAIN live)) \ {s.ret}
                    ELSE freed
        /\ op' = [name |-> "heap_realloc", ptr |-> p, n |-> n, ret |-> s.ret]

\* op.n records how many blocks the run has merged away
DefragmentHeap ==
    LET s == defragment_heap(Cur)
    IN  /\ fault = "none"
        /\ Commit(s)
        /\ UNCHANGED <<live, freed>>
        /\ op' = [name |-> "defragment_heap", ptr |-> NULL,
                  n |-> Len(Chain.nodes)
                          - Len(ChainOf(s.mem, s.first_block).nodes),
                  ret |-> NULL]

CheckHeapIntegrity ==
    LET s == check_heap_integrity(Cur)
    IN  /\ fault = "none"
        /\ Commit(s)
        /\ UNCHANGED <<live, freed>>
        /\ op' = [name |-> "check_heap_integrity", ptr |-> NULL, n |-> 0,
                  ret |-> IF s.fault = "none" /\ s.ret THEN 1 ELSE 0]

SetAllocationStrategy(strategy) ==
    /\ fault = "none"
    /\ current_strategy' = strategy
    /\ UNCHANGED <<heap, mem, first_block, heap_size, last_status, live,
                   freed, calls, fault>>
    /\ op' = [name |-> "set_allocation_strategy", ptr |-> NULL, n |-> 0,
              ret |-> NULL]

\* memset(ptr, 0, n) on the n bytes of a payload. ptr is a multiple of 8; of
\* the word that holds the last n % 8 bytes the low bytes are cleared (the
\* words of the arena are below 2^31 where the client fills payloads, so
\* clearing four bytes or more leaves zero)
memset(m, ptr, n) ==
    LET whole == n - (n % 8)
        last == ptr + whole
        k == n % 8
        v == Load(m, last)
        m1 == [a \in {x \in DOMAIN m : x < ptr \/ x >= ptr + whole} |-> m[a]]
    IN  IF k = 0 THEN m1
        ELSE IF k >= 4 THEN Store(m1, last, 0)
        ELSE Store(m1, last, v - (v % (256 ^ k)))

\* the client fills a payload it holds, as the tests do after heap_alloc
Memset(p) ==
    /\ fault = "none"
    /\ mem' = memset(mem, p, live[p])
    /\ op' = [name |-> "memset", ptr |-> p, n |-> live[p], ret |-> p]
    /\ UNCHANGED <<heap, first_block, heap_size, current_strategy, last_status,
                   live, freed, calls, fault>>

\* the client stores a value in every whole 8-byte word of a payload it
\* holds, as the tests and main.c do after heap_alloc
Fill(p, v) ==
    /\ fault = "none"
    /\ mem' = LET n == live[p] - (live[p] % 8)
                  rest == {a \in DOMAIN mem : a < p \/ a >= p + n}
                  payload == {p + (8 * i) : i \in 0..((n \div 8) - 1)}
              IN  [a \in rest \cup payload |->
                     IF a \in payload THEN v ELSE mem[a]]
    /\ op' = [name |-> "fill", ptr |-> p, n |-> live[p], ret |-> p]
    /\ UNCHANGED <<heap, first_block, heap_size, current_strategy, last_status,
                   live, freed, calls, fault>>

\* a search of the chain on its own; ret is the block found or NULL
Find(name, requested_size, s) ==
    /\ fault = "none"
    /\ Commit(s)
    /\ UNCHANGED <<live, freed>>
    /\ op' = [name |-> name, ptr |-> NULL, n |-> requested_size,
              ret |-> s.ret]

FindFitFirst(requested_size) ==
    Find("find_fit_first", requested_size,
         find_fit_first(Cur, requested_size))

FindFitBest(requested_size) ==
    Find("find_fit_best", requested_size, find_fit_best(Cur, requested_size))

FindFitWorst(requested_size) ==
    Find("find_fit_worst", requested_size,
         find_fit_worst(Cur, requested_size))

\* the calls of a client that keeps to the contract: sizes above zero and
\* pointers it holds
Next ==
    \/ /\ \E n \in Requests : HeapAlloc(n)
       /\ calls' <= MaxCalls
    \/ /\ \E p \in DOMAIN live : HeapFree(p)
       /\ calls' <= MaxCalls
    \/ /\ \E p \in DOMAIN live : \E n \in Requests : HeapRealloc(p, n)
       /\ calls' <= MaxCalls
    \/ /\ DefragmentHeap
       /\ calls' <= MaxCalls
    \/ \E strategy \in Strategies : SetAllocationStrategy(strategy)

Spec == Init /\ [][Next]_vars

\* the calls of a client that never resizes, and audits the heap
NextAllocFree ==
    \/ /\ \E n \in Requests : HeapAlloc(n)
       /\ calls' <= MaxCalls
    \/ /\ \E p \in DOMAIN live : HeapFree(p)
       /\ calls' <= MaxCalls
    \/ CheckHeapIntegrity
    \/ \E strategy \in Strategies : SetAllocationStrategy(strategy)

SpecAllocFree == Init /\ [][NextAllocFree]_vars

\* every call with every input, the rejected ones included
NextAny ==
    \/ /\ \E n \in Requests \cup {0} : HeapAlloc(n)
       /\ calls' <= MaxAnyCalls
    \/ /\ \E p \in (DOMAIN live) \cup {NULL} \cup OutsidePointers : HeapFree(p)
       /\ calls' <= MaxAnyCalls
    \/ /\ \E p \in (DOMAIN live) \cup {NULL} \cup OutsidePointers :
            \E n \in Requests \cup {0} : HeapRealloc(p, n)
       /\ calls' <= MaxAnyCalls
    \/ /\ DefragmentHeap
       /\ calls' <= MaxAnyCalls
    \/ CheckHeapIntegrity
    \/ \E strategy \in Strategies : SetAllocationStrategy(strategy)

SpecAny == Init /\ [][NextAny]_vars

\* the calls of a client that also asks for more than the arena can hold
NextTooLarge ==
    \/ /\ \E n \in Requests \cup TooLarge : HeapAlloc(n)
       /\ calls' <= MaxCalls
    \/ /\ \E p \in DOMAIN live : HeapFree(p)
       /\ calls' <= MaxCalls
    \/ \E strategy \in Strategies : SetAllocationStrategy(strategy)

SpecTooLarge == Init /\ [][NextTooLarge]_vars

\* the calls of a client that builds holes between blocks it keeps, as the
\* strategy tests do: allocations of a few sizes and frees, in any order
NextFit ==
    \/ /\ \E n \in FitRequests : HeapAlloc(n)
       /\ calls' <= MaxFitCalls
    \/ /\ \E p \in DOMAIN live : HeapFree(p)
       /\ calls' <= MaxFitCalls
    \/ \E strategy \in Strategies : SetAllocationStrategy(strategy)

SpecFit == Init /\ [][NextFit]_vars

\* the calls of a client that uses its payloads and frees some pointers a
\* second time
NextDoubleFree ==
    \/ /\ \E n \in FitRequests : HeapAlloc(n)
       /\ calls' <= MaxFitCalls
    \/ /\ \E p \in DOMAIN live : HeapFree(p)
       /\ calls' <= MaxFitCalls
    \/ /\ \E p \in freed : HeapFree(p)
       /\ calls' <= MaxFitCalls
    \/ \E p \in DOMAIN live : Memset(p)

SpecDoubleFree == Init /\ [][NextDoubleFree]_vars

\* the calls of a client that resizes blocks it has written to
NextResize ==
    \/ /\ \E n \in ResizeAllocs : HeapAlloc(n)
       /\ calls' <= MaxResizeCalls
    \/ /\ \E p \in DOMAIN live : HeapFree(p)
       /\ calls' <= MaxResizeCalls
    \/ /\ \E p \in DOMAIN live : \E n \in ResizeRequests : HeapRealloc(p, n)
       /\ calls' <= MaxResizeCalls
    \/ \E p \in DOMAIN live : \E v \in FillWords : Fill(p, v)

SpecResize == Init /\ [][NextResize]_vars

\* the calls of a client that resizes blocks to sizes near the ones they have
NextExact ==
    \/ /\ \E n \in ResizeAllocs : HeapAlloc(n)
       /\ calls' <= MaxExactCalls
    \/ /\ \E p \in DOMAIN live : HeapFree(p)
       /\ calls' <= MaxExactCalls
    \/ /\ \E p \in DOMAIN live : \E n \in ExactRequests : HeapRealloc(p, n)
       /\ calls' <= MaxExactCalls

SpecExact == Init /\ [][NextExact]_vars

\* the calls of a client that resizes blocks when the arena is full
NextExhaust ==
    \/ /\ \E n \in ExhaustAllocs : HeapAlloc(n)
       /\ calls' <= MaxExhaustCalls
    \/ /\ \E p \in DOMAIN live : HeapFree(p)
       /\ calls' <= MaxExhaustCalls
    \/ /\ \E p \in DOMAIN live : \E n \in ExhaustRequests : HeapRealloc(p, n)
       /\ calls' <= MaxExhaustCalls

SpecExhaust == Init /\ [][NextExhaust]_vars

\* the calls of a client that also resizes pointers it has given back and
\* pointers outside the used part of the arena
NextStale ==
    \/ /\ \E n \in FitRequests : HeapAlloc(n)
       /\ calls' <= MaxStaleCalls
    \/ /\ \E p \in DOMAIN live : HeapFree(p)
       /\ calls' <= MaxStaleCalls
    \/ /\ \E p \in DOMAIN live : \E n \in FitRequests : HeapRealloc(p, n)
       /\ calls' <= MaxStaleCalls
    \/ /\ \E p \in freed : \E n \in FitRequests : HeapRealloc(p, n)
       /\ calls' <= MaxStaleCalls
    \/ /\ \E p \in OutsidePointers : \E n \in FitRequests : HeapRealloc(p, n)
       /\ calls' <= MaxStaleCalls

SpecStale == Init /\ [][NextStale]_vars

\* the calls of a client that allocates, frees and resizes
NextMove ==
    \/ /\ \E n \in FitRequests : HeapAlloc(n)
       /\ calls' <= MaxMoveCalls
    \/ /\ \E p \in DOMAIN live : HeapFree(p)
       /\ calls' <= MaxMoveCalls
    \/ /\ \E p \in DOMAIN live : \E n \in FitRequests : HeapRealloc(p, n)
       /\ calls' <= MaxMoveCalls

SpecMove == Init /\ [][NextMove]_vars

\* the calls of a client that shrinks blocks and defragments the heap
NextDefrag ==
    \/ /\ \E n \in FitRequests : HeapAlloc(n)
       /\ calls' <= MaxDefragCalls
    \/ /\ \E p \in DOMAIN live : HeapFree(p)
       /\ calls' <= MaxDefragCalls
    \/ /\ \E p \in DOMAIN live : \E n \in ShrinkRequests : HeapRealloc(p, n)
       /\ calls' <= MaxDefragCalls
    \/ /\ DefragmentHeap
       /\ calls' <= MaxDefragCalls

SpecDefrag == Init /\ [][NextDefrag]_vars

\* the calls of a client that allocates, frees, resizes and audits the heap
NextAudit ==
    \/ /\ \E n \in FitRequests : HeapAlloc(n)
       /\ calls' <= MaxAuditCalls
    \/ /\ \E p \in DOMAIN live : HeapFree(p)
       /\ calls' <= MaxAuditCalls
    \/ /\ \E p \in DOMAIN live : \E n \in FitRequests : HeapRealloc(p, n)
       /\ calls' <= MaxAuditCalls
    \/ CheckHeapIntegrity

SpecAudit == Init /\ [][NextAudit]_vars

\* the calls of a client that allocates, frees and searches the chain
NextFind ==
    \/ /\ \E n \in FitRequests : HeapAlloc(n)
       /\ calls' <= MaxFindCalls
    \/ /\ \E p \in DOMAIN live : HeapFree(p)
       /\ calls' <= MaxFindCalls
    \/ \E requested_size \in FindSizes : FindFitFirst(requested_size)
    \/ \E requested_size \in FindSizes : FindFitBest(requested_size)
    \/ \E requested_size \in FindSizes : FindFitWorst(requested_size)

SpecFind == Init /\ [][NextFind]_vars


\* ---- the properties ----
Nodes == Chain.nodes
Returned == fault = "none"
PayloadOf(b) == b + SizeofBlockHeader
HeaderOf(p) == p - SizeofBlockHeader
AllocReturned == Returned /\ op.name = "heap_alloc" /\ op.ret # NULL
ReallocReturned ==
    Returned /\ op.name = "heap_realloc" /\ op.n > 0 /\ op.ret # NULL

\* C1: coverage. Every chain block but the last ends where its successor
\* begins, and the block sizes add up to the water-mark heap_size.
C1_Coverage ==
    Returned =>
        /\ \A i \in 1..(Len(Nodes) - 1) :
             Nodes[i] + GetSize(mem, Nodes[i]) = Nodes[i + 1]
        /\ get_used_heap_size(mem, first_block) = heap_size

\* C2: after a call has returned no two consecutive chain blocks are both
\* free.
C2_NoAdjacentFreePair ==
    Returned =>
        \A i \in 1..(Len(Nodes) - 1) :
            ~(GetFree(mem, Nodes[i]) /\ GetFree(mem, Nodes[i + 1]))

\* C3: every chain block's size is a multiple of ALIGNMENT and at least
\* sizeof(BlockHeader) + ALIGNMENT.
C3_BlockSize ==
    Returned =>
        \A i \in 1..Len(Nodes) :
            /\ GetSize(mem, Nodes[i]) % ALIGNMENT = 0
            /\ GetSize(mem, Nodes[i]) >= SizeofBlockHeader + ALIGNMENT

\* C4: a payload address returned by a successful heap_alloc or heap_realloc
\* lies in [heap, heap + heap_size) and is a multiple of ALIGNMENT.
C4_PayloadInArenaAligned ==
    (AllocReturned \/ ReallocReturned) =>
        /\ op.ret >= heap
        /\ op.ret < heap + heap_size
        /\ op.ret % ALIGNMENT = 0

\* C5: every header address of the chain is a multiple of ALIGNMENT, and for
\* a pointer p returned by heap_alloc, p + sizeof(BlockHeader) is one too.
C5_HeaderAligned ==
    /\ \A i \in 1..Len(Nodes) : Nodes[i] % ALIGNMENT = 0
    /\ AllocReturned => (op.ret + SizeofBlockHeader) % ALIGNMENT = 0

\* a call has returned a pointer into a chain that a split and an extension
\* have built
C5_Witness ==
    /\ AllocReturned
    /\ Len(Nodes) >= 3
    /\ \E i \in 1..Len(Nodes) : GetFree(mem, Nodes[i])
    /\ \E i \in 1..Len(Nodes) : Nodes[i] = HeaderOf(op.ret)

\* C6: the chain ends, rises strictly in address, and every block lies
\* inside [heap, heap + heap_size), so inside the arena.
C6_AcyclicBounded ==
    Returned =>
        /\ Chain.end = "null"
        /\ \A i \in 1..(Len(Nodes) - 1) : Nodes[i] < Nodes[i + 1]
        /\ \A i \in 1..Len(Nodes) :
             /\ Nodes[i] >= heap
             /\ Nodes[i] + GetSize(mem, Nodes[i]) <= heap + heap_size
        /\ heap_size <= HEAP_CAPACITY

C8_AllocPostcondition ==
    AllocReturned =>
        /\ ~GetFree(mem, HeaderOf(op.ret))
        /\ GetSize(mem, HeaderOf(op.ret)) >= align(op.n + SizeofBlockHeader)
        /\ last_status = "ALLOC_SUCCESS"

\* heap_alloc has reused a whole free block: the block it returned is followed
\* by an allocated block, which neither an extension nor a split leaves
C8_Witness ==
    /\ AllocReturned
    /\ GetNext(mem, HeaderOf(op.ret)) # NULL
    /\ ~GetFree(mem, GetNext(mem, HeaderOf(op.ret)))
    /\ C1_Coverage

\* C9: heap_alloc(0) returns NULL with ALLOC_ERROR and leaves the chain, the
\* water-mark and the strategy as they were.
C9_AllocZero ==
    [][(op'.name = "heap_alloc" /\ op'.n = 0) =>
         /\ fault' = "none"
         /\ op'.ret = NULL
         /\ last_status' = "ALLOC_ERROR"
         /\ UNCHANGED <<mem, first_block, heap_size, current_strategy>>]_vars

\* heap_alloc(0) has been called on a chain with blocks, under a strategy
\* other than the default
C9_Witness ==
    /\ op.name = "heap_alloc"
    /\ op.n = 0
    /\ Len(Nodes) >= 2
    /\ current_strategy # "FIRST_FIT"

\* no free block of the chain has room for total bytes
NoFit(m, first, total) ==
    LET c == ChainOf(m, first).nodes
    IN  \A i \in 1..Len(c) : ~(GetFree(m, c[i]) /\ GetSize(m, c[i]) >= total)

\* C10: when no free block fits and heap_size + total exceeds HEAP_CAPACITY,
\* heap_alloc(n) returns NULL with ALLOC_OUT_OF_MEMORY and leaves the chain
\* and the water-mark as they were; and heap_size never exceeds HEAP_CAPACITY.
C10_OutOfMemory ==
    /\ [][(/\ op'.name = "heap_alloc"
           /\ op'.n > 0
           /\ fault' = "none"
           /\ NoFit(mem, first_block, align(op'.n + SizeofBlockHeader))
           /\ heap_size + align(op'.n + SizeofBlockHeader) > HEAP_CAPACITY) =>
            /\ op'.ret = NULL
            /\ last_status' = "ALLOC_OUT_OF_MEMORY"
            /\ UNCHANGED <<mem, first_block, heap_size>>]_vars
    /\ [](heap_size <= HEAP_CAPACITY)

\* heap_alloc has failed for want of room while the chain holds a free block
\* that is too small
C10_Witness ==
    /\ Returned
    /\ op.name = "heap_alloc"
    /\ op.n > 0
    /\ op.ret = NULL
    /\ last_status = "ALLOC_OUT_OF_MEMORY"
    /\ \E i \in 1..Len(Nodes) : GetFree(mem, Nodes[i])

\* C11: heap_alloc(n) with n above HEAP_CAPACITY, the values near SIZE_MAX
\* for which n + sizeof(BlockHeader) wraps included, returns NULL with
\* ALLOC_OUT_OF_MEMORY and leaves the chain and the water-mark as they were.
C11_TooLarge ==
    [][(op'.name = "heap_alloc" /\ UGt(op'.n, HEAP_CAPACITY)) =>
         /\ fault' = "none"
         /\ op'.ret = NULL
         /\ last_status' = "ALLOC_OUT_OF_MEMORY"
         /\ UNCHANGED <<mem, first_block, heap_size>>]_vars

\* the free blocks of the chain with room for total bytes, in chain order
Fits(m, first, total) ==
    LET c == ChainOf(m, first).nodes
    IN  SelectSeq(c, LAMBDA b : GetFree(m, b) /\ UGe(GetSize(m, b), total))

\* heap_alloc(n) is about to return, n above zero
AllocStep == op'.name = "heap_alloc" /\ op'.n > 0 /\ fault' = "none"
Total == align(op'.n + SizeofBlockHeader)

\* C12: when some free block of the chain has size >= align(n +
\* sizeof(BlockHeader)), heap_alloc(n) under any strategy returns the payload
\* of a free block that fits and leaves heap_size as it was.
C12_NoExtensionWhenFit ==
    [][(AllocStep /\ Fits(mem, first_block, Total) # <<>>) =>
         /\ \E i \in 1..Len(Fits(mem, first_block, Total)) :
              op'.ret = PayloadOf(Fits(mem, first_block, Total)[i])
         /\ heap_size' = heap_size]_vars

\* heap_alloc has taken the front of a free block under each strategy but
\* the default, and left the rest of it free
C12_Witness ==
    /\ AllocReturned
    /\ current_strategy = "WORST_FIT"
    /\ GetNext(mem, HeaderOf(op.ret)) # NULL
    /\ GetFree(mem, GetNext(mem, HeaderOf(op.ret)))
    /\ HeaderOf(op.ret) + GetSize(mem, HeaderOf(op.ret)) < heap + heap_size

\* C13: heap_free(NULL) sets ALLOC_INVALID_FREE and heap_free(p) with p
\* outside [heap, heap + heap_size) sets ALLOC_HEAP_ERROR; both leave the
\* chain, the water-mark and every free flag as they were.
C13_FreeRejected ==
    [][(op'.name = "heap_free") =>
         /\ (op'.ptr = NULL) =>
              /\ fault' = "none"
              /\ last_status' = "ALLOC_INVALID_FREE"
              /\ UNCHANGED <<mem, first_block, heap_size>>
         /\ (op'.ptr # NULL
               /\ (op'.ptr < heap \/ op'.ptr >= heap + heap_size)) =>
              /\ fault' = "none"
              /\ last_status' = "ALLOC_HEAP_ERROR"
              /\ UNCHANGED <<mem, first_block, heap_size>>]_vars

\* heap_free has been called with the address of the water-mark, the first
\* one past the used part, on a chain of blocks
C13_Witness ==
    /\ Returned
    /\ op.name = "heap_free"
    /\ op.ptr = heap + heap_size
    /\ last_status = "ALLOC_HEAP_ERROR"
    /\ Len(Nodes) >= 2
    /\ \E i \in 1..Len(Nodes) : ~GetFree(mem, Nodes[i])

\* C14: heap_free(p) of a pointer that has been freed before and not been
\* handed out again, whether or not its block has since been merged into a
\* neighbour, sets ALLOC_INVALID_FREE and changes no size, flag or link.
C14_DoubleFreeRejected ==
    [][(op'.name = "heap_free" /\ op'.ptr \in freed) =>
         /\ fault' = "none"
         /\ last_status' = "ALLOC_INVALID_FREE"
         /\ UNCHANGED <<mem, first_block, heap_size>>]_vars

\* heap_alloc(n) is about to return under the strategy, and some free block
\* of the chain has room
FitStep(strategy) ==
    /\ AllocStep
    /\ current_strategy = strategy
    /\ Fits(mem, first_block, Total) # <<>>

\* heap_alloc has returned under the strategy, and a free block at a lower
\* address than the one it took has room for the request as well
PassedOver(strategy) ==
    /\ AllocReturned
    /\ current_strategy = strategy
    /\ \E i \in 1..Len(Nodes) :
         /\ Nodes[i] < HeaderOf(op.ret)
         /\ GetFree(mem, Nodes[i])
         /\ GetSize(mem, Nodes[i]) >= align(op.n + SizeofBlockHeader)

\* C15: under FIRST_FIT, when a free block has room, heap_alloc returns the
\* payload of the first such block in chain order, which is the one at the
\* lowest address.
C15_FirstFit ==
    [][FitStep("FIRST_FIT") =>
         LET fits == Fits(mem, first_block, Total)
         IN  /\ op'.ret = PayloadOf(fits[1])
             /\ \A j \in 1..Len(fits) : fits[1] <= fits[j]]_vars

\* heap_alloc has taken, under FIRST_FIT, a block that lies before another
\* free block with room, an allocated block between them
C15_Witness ==
    /\ AllocReturned
    /\ current_strategy = "FIRST_FIT"
    /\ \E i \in 1..Len(Nodes) : \E j \in 1..Len(Nodes) :
         /\ HeaderOf(op.ret) < Nodes[i]
         /\ Nodes[i] < Nodes[j]
         /\ ~GetFree(mem, Nodes[i])
         /\ GetFree(mem, Nodes[j])
         /\ GetSize(mem, Nodes[j]) >= align(op.n + SizeofBlockHeader)

\* C16: under BEST_FIT, when a free block has room, heap_alloc returns the
\* payload of a free block with room of the smallest size, and of the blocks
\* of that size the one at the lowest address.
C16_BestFit ==
    [][FitStep("BEST_FIT") =>
         LET fits == Fits(mem, first_block, Total)
         IN  \E i \in 1..Len(fits) :
               /\ op'.ret = PayloadOf(fits[i])
               /\ \A j \in 1..Len(fits) :
                    \/ GetSize(mem, fits[i]) < GetSize(mem, fits[j])
                    \/ /\ GetSize(mem, fits[i]) = GetSize(mem, fits[j])
                       /\ fits[i] <= fits[j]]_vars

C16_Witness == PassedOver("BEST_FIT")

C20_ReallocEdges ==
    [][(op'.name = "heap_realloc") =>
         /\ (op'.ptr = NULL) =>
              LET a == heap_alloc(Cur, op'.n)
              IN  /\ op'.ret = a.ret
                  /\ fault' = a.fault
                  /\ last_status' = a.last_status
                  /\ mem' = a.mem
                  /\ first_block' = a.first_block
                  /\ heap_size' = a.heap_size
         /\ (op'.ptr # NULL /\ op'.n = 0) =>
              LET f == heap_free(Cur, op'.ptr)
              IN  /\ op'.ret = NULL
                  /\ fault' = f.fault
                  /\ last_status' = f.last_status
                  /\ mem' = f.mem
                  /\ first_block' = f.first_block
                  /\ heap_size' = f.heap_size]_vars

\* heap_realloc(p, 0) has freed a block the client held, next to blocks that
\* stay allocated
C20_Witness ==
    /\ Returned
    /\ op.name = "heap_realloc"
    /\ op.n = 0
    /\ op.ptr \in freed
    /\ op.ret = NULL
    /\ last_status = "ALLOC_SUCCESS"
    /\ GetFree(mem, HeaderOf(op.ptr))
    /\ get_alloc_count(mem, first_block) >= 1

\* the first n bytes at address p in m1 are the first n bytes at q in m2
SameBytes(m1, p, m2, q, n) ==
    LET whole == n - (n % 8)
        k == n % 8
        a == Load(m1, p + whole)
        b == Load(m2, q + whole)
    IN  /\ \A i \in 0..((whole \div 8) - 1) :
             Load(m1, p + (8 * i)) = Load(m2, q + (8 * i))
        /\ k = 0 \/ (IF k >= 4 THEN a = b
                      ELSE a % (256 ^ k) = b % (256 ^ k))

\* heap_realloc(p, n) is about to return a pointer, p held and n above zero
ReallocStep ==
    /\ op'.name = "heap_realloc"
    /\ op'.n > 0
    /\ op'.ptr \in DOMAIN live
    /\ fault' = "none"
    /\ op'.ret # NULL

\* payload bytes of the block at header b
PayloadSize(m, b) == GetSize(m, b) - SizeofBlockHeader

\* C21: after a successful heap_realloc(p, n), n > 0, of a held pointer, the
\* first min(old payload size, n) bytes of the payload returned are the bytes
\* the old payload held before the call, wherever the payload now is. Stated
\* for the part of the old payload that the client had asked for, live[p]
\* bytes, which is never more than the old payload size.
C21_ContentPreserved ==
    [][ReallocStep =>
         SameBytes(mem, op'.ptr, mem', op'.ret,
                   IF op'.n < live[op'.ptr] THEN op'.n
                   ELSE live[op'.ptr])]_vars

\* heap_realloc(p, n) of a held pointer, n above zero, whose block is smaller
\* than the total the request needs
GrowStep ==
    /\ op'.name = "heap_realloc"
    /\ op'.n > 0
    /\ op'.ptr \in DOMAIN live
    /\ fault = "none"
    /\ ULt(GetSize(mem, HeaderOf(op'.ptr)),
           align(op'.n + SizeofBlockHeader))

\* the bytes the block at header b and its successor cover
WithNext(m, b) == GetSize(m, b) + GetSize(m, GetNext(m, b))

\* C22: when the block is smaller than total_new, heap_realloc returns p
\* itself exactly when the block has a successor, the successor is free and
\* the sizes of the two are together at least total_new; and the block is
\* then no larger than the two were together.
C22_GrowInPlace ==
    [][GrowStep =>
         LET curr == HeaderOf(op'.ptr)
             next == GetNext(mem, curr)
             total_new == align(op'.n + SizeofBlockHeader)
             in_place == fault' = "none" /\ op'.ret = op'.ptr
         IN  /\ in_place <=> (/\ next # NULL
                              /\ GetFree(mem, next)
                              /\ UGe(WithNext(mem, curr), total_new))
             /\ in_place => ULe(GetSize(mem', curr), WithNext(mem, curr))]_vars

\* heap_realloc(p, n) of a held pointer, n above zero, that reaches the last
\* case of the function and gets a block from heap_alloc
MoveStep ==
    /\ GrowStep
    /\ LET curr == HeaderOf(op'.ptr)
           next == GetNext(mem, curr)
       IN  ~(/\ next # NULL
             /\ GetFree(mem, next)
             /\ UGe(WithNext(mem, curr) + SizeofBlockHeader,
                    align(op'.n + SizeofBlockHeader)))
    /\ fault' = "none"
    /\ op'.ret # NULL

\* the block of chain c in memory m that covers address x is free and has no
\* free neighbour
FreeAndCoalesced(m, c, x) ==
    \E i \in 1..Len(c) :
        /\ c[i] <= x
        /\ x < c[i] + GetSize(m, c[i])
        /\ GetFree(m, c[i])
        /\ i > 1 => ~GetFree(m, c[i - 1])
        /\ i < Len(c) => ~GetFree(m, c[i + 1])

\* C23: a heap_realloc(p, n) that cannot be served in place and obtains a new
\* block returns an address other than p; the new block is not free and has
\* size at least align(n + sizeof(BlockHeader)); the old block is free and
\* merged with its free neighbours; the number of allocated blocks is the
\* same as before; and the status is ALLOC_SUCCESS.
C23_Relocation ==
    [][MoveStep =>
         /\ op'.ret # op'.ptr
         /\ ~GetFree(mem', HeaderOf(op'.ret))
         /\ UGe(GetSize(mem', HeaderOf(op'.ret)),
                align(op'.n + SizeofBlockHeader))
         /\ GetFree(mem', HeaderOf(op'.ptr))
         /\ FreeAndCoalesced(mem', ChainOf(mem', first_block').nodes,
                             HeaderOf(op'.ptr))
         /\ get_alloc_count(mem', first_block')
              = get_alloc_count(mem, first_block)
         /\ last_status' = "ALLOC_SUCCESS"]_vars

\* the last call was heap_realloc(p, n), n above zero, and returned p
ReturnedSame ==
    /\ fault = "none"
    /\ op.name = "heap_realloc"
    /\ op.n > 0
    /\ op.ptr # NULL
    /\ op.ret = op.ptr

\* what the same heap_realloc(p, n) does when it is called again at once
Again == heap_realloc(Cur, op.ptr, op.n)

\* C24: after a heap_realloc(p, n) that returned p, the same call made again
\* at once returns p and leaves every size, flag and link of the chain and
\* the water-mark as they are.
C24_ResizeIdempotent ==
    ReturnedSame =>
        /\ Again.fault = "none"
        /\ Again.ret = op.ptr
        /\ Again.mem = mem
        /\ Again.first_block = first_block
        /\ Again.heap_size = heap_size

\* a resize in place has left a block of exactly the total it needs, followed
\* by a free block
C24_Witness ==
    /\ ReturnedSame
    /\ Again.ret = op.ptr
    /\ LET curr == HeaderOf(op.ptr)
       IN  /\ GetSize(mem, curr) = align(op.n + SizeofBlockHeader)
           /\ GetNext(mem, curr) # NULL
           /\ GetFree(mem, GetNext(mem, curr))
           /\ GetSize(mem, curr) > 32

\* two blocks that follow one another in the chain from first are both free
FreePair(m, first) ==
    LET c == ChainOf(m, first).nodes
    IN  \E i \in 1..(Len(c) - 1) : GetFree(m, c[i]) /\ GetFree(m, c[i + 1])

\* what defragment_heap does when it is called again at once
Redefragment == defragment_heap(Cur)

\* C25: after defragment_heap has run, no two neighbours of the chain are both
\* free, and a second run at once changes no size, flag or link of the chain.
C25_DefragmentIdempotent ==
    op.name = "defragment_heap" =>
        /\ fault = "none"
        /\ ~FreePair(mem, first_block)
        /\ Redefragment.fault = "none"
        /\ Redefragment.mem = mem
        /\ Redefragment.first_block = first_block
        /\ Redefragment.heap_size = heap_size

\* defragment_heap has merged free neighbours, and a second run leaves the
\* chain as it is
C25_Witness ==
    /\ op.name = "defragment_heap"
    /\ op.n > 0
    /\ fault = "none"
    /\ Redefragment.mem = mem
    /\ get_free_block_count(mem, first_block) >= 1

\* the states in which heap_alloc(n) returns when a client makes k times the
\* pair of calls heap_alloc(n); heap_free(result), from state s on
RECURSIVE Repeats(_, _, _)
Repeats(s, n, k) ==
    IF k = 0 THEN {}
    ELSE LET a == heap_alloc(s, n)
         IN  IF a.fault # "none" \/ a.ret = NULL THEN {a}
             ELSE {a} \cup Repeats(heap_free(a, a.ret), n, k - 1)

\* the last call was a heap_alloc(n), n above zero, that returned a block
Allocated ==
    /\ fault = "none"
    /\ op.name = "heap_alloc"
    /\ op.n > 0
    /\ op.ret # NULL

\* C26: after a heap_alloc(n) has returned a block, under any strategy,
\* freeing the block and repeating heap_alloc(n); heap_free(result) never
\* raises heap_size above the value it has now.
C26_WaterMarkStable ==
    Allocated =>
        \A a \in Repeats(heap_free(Cur, op.ret), op.n, MaxRepeats) :
            /\ a.fault = "none"
            /\ a.ret # NULL
            /\ a.heap_size <= heap_size

\* a heap_alloc(n) under a strategy other than first fit, while another block
\* is free, after which the repeated heap_alloc(n) returns a different block
\* and leaves heap_size as it is
C26_Witness ==
    /\ Allocated
    /\ current_strategy # "FIRST_FIT"
    /\ get_free_block_count(mem, first_block) >= 1
    /\ \E a \in Repeats(heap_free(Cur, op.ret), op.n, MaxRepeats) :
          a.ret # op.ret /\ a.heap_size = heap_size

\* the reference predicate of the audit, on the chain c of memory m that
\* starts at first and ended as the walk says. Each violation is a pair
\* <<position in the chain, rank of the test>>: the size of block i (rank 1),
\* its extent (rank 2), block i and its successor both free (rank 3), a node
\* met again after the last block (rank 0 at position Len(c) + 1)
Violations(m, first, heap_base) ==
    LET w == ChainOf(m, first)
        c == w.nodes
    IN  {<<i, 1>> : i \in {k \in 1..Len(c) :
                             \/ GetSize(m, c[k]) = 0
                             \/ GetSize(m, c[k]) % ALIGNMENT # 0}}
        \cup {<<i, 2>> : i \in {k \in 1..Len(c) :
                             \/ c[k] < heap_base
                             \/ c[k] + GetSize(m, c[k])
                                  > heap_base + HEAP_CAPACITY}}
        \cup {<<i, 3>> : i \in {k \in 1..Len(c) :
                             /\ GetFree(m, c[k])
                             /\ GetNext(m, c[k]) # NULL
                             /\ GetFree(m, GetNext(m, c[k]))}}
        \cup (IF w.end = "cycle" THEN {<<Len(c) + 1, 0>>} ELSE {})

\* the violation the walk meets first
FirstViolation(v) ==
    CHOOSE x \in v : \A y \in v :
        x[1] < y[1] \/ (x[1] = y[1] /\ x[2] <= y[2])

\* check_heap_integrity is about to return
AuditStep == op'.name = "check_heap_integrity" /\ fault' = "none"

Overlap(a, n, b, k) == a < b + k /\ b < a + n

\* C28: the payload ranges [p, p + requested size) of two pointers the client
\* holds are disjoint, and none of them contains a byte of the header of a
\* block of the chain.
C28_LiveDisjoint ==
    fault = "none" =>
        /\ \A p, q \in DOMAIN live :
              p # q => ~Overlap(p, live[p], q, live[q])
        /\ \A p \in DOMAIN live : \A i \in 1..Len(Nodes) :
              ~Overlap(p, live[p], Nodes[i], SizeofBlockHeader)

FindStep ==
    /\ op'.name \in {"find_fit_first", "find_fit_best", "find_fit_worst"}
    /\ fault' = "none"

\* C30: find_fit_first, find_fit_best and find_fit_worst change nothing of
\* the chain or the water-mark; the block one of them returns is free and has
\* at least the size asked for, and the status is then ALLOC_SUCCESS; it
\* returns NULL, with ALLOC_OUT_OF_MEMORY, exactly when the chain has no such
\* block.
C30_FindFitPure ==
    [][FindStep =>
         /\ mem' = mem
         /\ first_block' = first_block
         /\ heap_size' = heap_size
         /\ op'.ret # NULL =>
              (/\ \E i \in 1..Len(Nodes) : Nodes[i] = op'.ret
               /\ GetFree(mem, op'.ret)
               /\ UGe(GetSize(mem, op'.ret), op'.n)
               /\ last_status' = "ALLOC_SUCCESS")
         /\ (op'.ret = NULL) <=> NoFit(mem, first_block, op'.n)
         /\ op'.ret = NULL => last_status' = "ALLOC_OUT_OF_MEMORY"]_vars

\* find_fit_best has returned a block although a free block before it in the
\* chain has room as well
C30_Witness ==
    /\ fault = "none"
    /\ op.name = "find_fit_best"
    /\ op.ret # NULL
    /\ last_status = "ALLOC_SUCCESS"
    /\ \E i \in 1..Len(Nodes) :
          /\ Nodes[i] < op.ret
          /\ GetFree(mem, Nodes[i])
          /\ GetSize(mem, Nodes[i]) >= op.n

\* heap_free(p) of a pointer the client holds is about to return with
\* ALLOC_SUCCESS
FreeStep ==
    /\ op'.name = "heap_free"
    /\ op'.ptr \in DOMAIN live
    /\ fault' = "none"
    /\ last_status' = "ALLOC_SUCCESS"

\* the index of header b in chain c, 0 when it is not there
IndexOf(c, b) ==
    IF \E i \in 1..Len(c) : c[i] = b
    THEN CHOOSE i \in 1..Len(c) : c[i] = b
    ELSE 0

\* the last index of the run of free blocks that follows block i of chain c
RECURSIVE FreeRunEnd(_, _, _)
FreeRunEnd(m, c, i) ==
    IF i < Len(c) /\ GetFree(m, c[i + 1]) THEN FreeRunEnd(m, c, i + 1) ELSE i

\* C31: a heap_free(p) that succeeds leaves heap_size and the sum of the block
\* sizes as they are. The chain afterwards is the chain before with the freed
\* block, the free blocks that follow it and a free predecessor replaced by
\* one free block that has their sizes together; every other block keeps its
\* place, its size and its flag.
C31_FreeFrame ==
    [][FreeStep =>
         LET c == Chain.nodes
             d == ChainOf(mem', first_block').nodes
             i == IndexOf(c, HeaderOf(op'.ptr))
             hi == FreeRunEnd(mem, c, i)
             lo == IF i > 1 /\ GetFree(mem, c[i - 1]) THEN i - 1 ELSE i
         IN  /\ heap_size' = heap_size
             /\ first_block' = first_block
             /\ get_used_heap_size(mem', first_block')
                  = get_used_heap_size(mem, first_block)
             /\ i > 0
             /\ d = SubSeq(c, 1, lo) \o SubSeq(c, hi + 1, Len(c))
             /\ GetFree(mem', c[lo])
             /\ GetSize(mem', c[lo]) = SumSizes(mem, SubSeq(c, lo, hi), 1)
             /\ \A k \in (1..Len(c)) \ (lo..hi) :
                   /\ GetSize(mem', c[k]) = GetSize(mem, c[k])
                   /\ GetFree(mem', c[k]) = GetFree(mem, c[k])]_vars

\* heap_free has merged the block with two free blocks that followed it
C31_Witness ==
    /\ Returned
    /\ op.name = "heap_free"
    /\ op.ptr \in freed
    /\ last_status = "ALLOC_SUCCESS"
    /\ LET h == HeaderOf(op.ptr)
       IN  /\ IndexOf(Nodes, h) > 0
           /\ \E a, b \in DOMAIN mem :
                 /\ h < a
                 /\ a < b
                 /\ b < h + GetSize(mem, h)
                 /\ a = h + 32
                 /\ b = a + GetSize(mem, a)
                 /\ GetFree(mem, a)
                 /\ GetFree(mem, b)
                 /\ b + GetSize(mem, b) = h + GetSize(mem, h)

\* heap_realloc(p, n), n > 0, of a held pointer whose block already has
\* align(n + sizeof(BlockHeader)) bytes or more is about to return
ShrinkStep ==
    /\ op'.name = "heap_realloc"
    /\ op'.n > 0
    /\ op'.ptr \in DOMAIN live
    /\ UGe(GetSize(mem, HeaderOf(op'.ptr)), align(op'.n + SizeofBlockHeader))

\* what is left of the block at curr beyond total_new_size bytes
Residue(m, curr, total_new_size) == GetSize(m, curr) - total_new_size

\* C32: heap_realloc(p, n) of a block that has total_new = align(n +
\* sizeof(BlockHeader)) bytes or more returns p with ALLOC_SUCCESS and leaves
\* heap_size as it is; the block is split exactly when its size less total_new
\* is at least sizeof(BlockHeader) + ALIGNMENT, the test of heap_alloc, and the
\* rest is then a free block that follows it in the chain.
C32_ShrinkOrExact ==
    [][ShrinkStep =>
         LET curr == HeaderOf(op'.ptr)
             total == align(op'.n + SizeofBlockHeader)
             rest == curr + total
         IN  /\ fault' = "none"
             /\ op'.ret = op'.ptr
             /\ last_status' = "ALLOC_SUCCESS"
             /\ heap_size' = heap_size
             /\ IF UGe(Residue(mem, curr, total), SizeofBlockHeader + ALIGNMENT)
                THEN /\ GetSize(mem', curr) = total
                     /\ GetNext(mem', curr) = rest
                     /\ GetFree(mem', rest)
                     /\ GetSize(mem', rest) = Residue(mem, curr, total)
                     /\ GetNext(mem', rest) = GetNext(mem, curr)
                ELSE /\ GetSize(mem', curr) = GetSize(mem, curr)
                     /\ GetNext(mem', curr) = GetNext(mem, curr)]_vars

\* the bytes that the block at curr and a free block after it cover together
InPlaceRoom(m, curr) ==
    LET next == GetNext(m, curr)
    IN  IF next # NULL /\ GetFree(m, next)
        THEN GetSize(m, curr) + GetSize(m, next)
        ELSE GetSize(m, curr)

\* heap_realloc(p, n), n > 0, of a held pointer is about to return, and before
\* the call neither the block with a free block after it, nor a free block of
\* the chain, nor the rest of the arena had align(n + sizeof(BlockHeader)) bytes
FailStep ==
    /\ op'.name = "heap_realloc"
    /\ op'.n > 0
    /\ op'.ptr \in DOMAIN live
    /\ ULt(InPlaceRoom(mem, HeaderOf(op'.ptr)), Total)
    /\ NoFit(mem, first_block, Total)
    /\ heap_size + Total > HEAP_CAPACITY

\* C33: a heap_realloc(p, n) that can be served neither in place nor by a new
\* block returns NULL with ALLOC_OUT_OF_MEMORY; the block of p is still
\* allocated, and the arena's words (its size, its payload, the other blocks),
\* first_block and heap_size are what they were.
C33_FailedRelocation ==
    [][FailStep =>
         /\ fault' = "none"
         /\ op'.ret = NULL
         /\ last_status' = "ALLOC_OUT_OF_MEMORY"
         /\ ~GetFree(mem', HeaderOf(op'.ptr))
         /\ live' = live
         /\ UNCHANGED <<mem, first_block, heap_size>>]_vars

\* C34: heap_realloc(p, n) with n > 0 and p not NULL and outside
\* [heap, heap + heap_size) returns NULL with ALLOC_HEAP_ERROR and leaves the
\* arena's words, first_block and heap_size as they were.
C34_ReallocRejected ==
    [][(/\ op'.name = "heap_realloc"
        /\ op'.n > 0
        /\ op'.ptr # NULL
        /\ (op'.ptr < heap \/ op'.ptr >= heap + heap_size)) =>
         /\ fault' = "none"
         /\ op'.ret = NULL
         /\ last_status' = "ALLOC_HEAP_ERROR"
         /\ UNCHANGED <<mem, first_block, heap_size, live>>]_vars

\* heap_realloc has been called with the address of the water-mark on a chain
\* that has an allocated block and a free one
C34_Witness ==
    /\ Returned
    /\ op.name = "heap_realloc"
    /\ op.n > 0
    /\ op.ptr = heap + heap_size
    /\ op.ret = NULL
    /\ last_status = "ALLOC_HEAP_ERROR"
    /\ \E i \in 1..Len(Nodes) : ~GetFree(mem, Nodes[i])
    /\ \E i \in 1..Len(Nodes) : GetFree(mem, Nodes[i])

\* C35: a pointer that heap_realloc(p, n), n > 0, returns with ALLOC_SUCCESS
\* is the payload of a block of the chain whose header is marked not free,
\* also when p is a pointer that has been given back with heap_free.
C35_ReallocResultAllocated ==
    (/\ Returned
     /\ op.name = "heap_realloc"
     /\ op.n > 0
     /\ op.ret # NULL
     /\ last_status = "ALLOC_SUCCESS")
      => /\ \E i \in 1..Len(Nodes) : Nodes[i] = HeaderOf(op.ret)
         /\ ~GetFree(mem, HeaderOf(op.ret))

\* C36: heap_size never goes down and never exceeds HEAP_CAPACITY. A call
\* that changes it is a heap_alloc(n), or a heap_realloc(p, n) that returns a
\* pointer other than p, made when no free block of the chain had
\* align(n + sizeof(BlockHeader)) bytes, and it adds exactly that many bytes;
\* heap_free, heap_realloc that returns p and defragment_heap leave it alone.
C36_WaterMark ==
    [][/\ heap_size' >= heap_size
       /\ heap_size' <= HEAP_CAPACITY
       /\ (heap_size' # heap_size) =>
             /\ op'.name \in {"heap_alloc", "heap_realloc"}
             /\ op'.n # 0
             /\ op'.ret # NULL
             /\ op'.ret # op'.ptr
             /\ NoFit(mem, first_block, Total)
             /\ heap_size' = heap_size + Total
             /\ HeaderOf(op'.ret) = heap + heap_size]_vars

\* the block of p was a block of the chain marked allocated before the call,
\* and its header now lies in a free block of the chain
FreedByCall ==
    LET h == HeaderOf(op'.ptr)
        c == Chain.nodes
        d == ChainOf(mem', first_block').nodes
    IN  /\ op'.ptr # NULL
        /\ \E i \in 1..Len(c) : c[i] = h /\ ~GetFree(mem, h)
        /\ \E k \in 1..Len(d) :
              /\ GetFree(mem', d[k])
              /\ d[k] <= h
              /\ h < d[k] + GetSize(mem', d[k])

\* C37: when heap_alloc(n), or heap_realloc(p, n) with n not zero, returns,
\* the result is not NULL exactly when the status is ALLOC_SUCCESS; when
\* heap_free(p) returns, the status is ALLOC_SUCCESS exactly when the call has
\* turned the block of p from allocated to free.
C37_ChannelsAgree ==
    [][(fault' = "none") =>
         /\ (op'.name = "heap_alloc") =>
               (op'.ret # NULL <=> last_status' = "ALLOC_SUCCESS")
         /\ (op'.name = "heap_realloc" /\ op'.n # 0) =>
               (op'.ret # NULL <=> last_status' = "ALLOC_SUCCESS")
         /\ (op'.name = "heap_free") =>
               (last_status' = "ALLOC_SUCCESS" <=> FreedByCall)]_vars

\* the allocated blocks of the chain from first, in chain order, each with
\* its size
AllocatedBlocks(m, first) ==
    LET c == SelectSeq(ChainOf(m, first).nodes, LAMBDA b : ~GetFree(m, b))
    IN  [i \in 1..Len(c) |-> <<c[i], GetSize(m, c[i])>>]

\* C38: defragment_heap returns, and afterwards no two blocks that follow one
\* another in the chain are both free; the allocated blocks are the same
\* blocks with the same sizes in the same order, first_block and heap_size are
\* unchanged, and the block sizes add up to what they did before.
C38_DefragmentResult ==
    [][(op'.name = "defragment_heap") =>
         /\ fault' = "none"
         /\ ChainOf(mem', first_block').end = "null"
         /\ ~FreePair(mem', first_block')
         /\ AllocatedBlocks(mem', first_block')
              = AllocatedBlocks(mem, first_block)
         /\ first_block' = first_block
         /\ heap_size' = heap_size
         /\ get_used_heap_size(mem', first_block')
              = get_used_heap_size(mem, first_block)
         /\ \A p \in DOMAIN live : \A a \in p..(p + live[p] - 1) :
               Load(mem', a) = Load(mem, a)]_vars

\* defragment_heap has merged the two free blocks that a shrinking
\* heap_realloc left side by side after the allocated block it has kept
C38_Witness ==
    /\ Returned
    /\ op.name = "defragment_heap"
    /\ op.n = 1
    /\ DOMAIN live # {}
    /\ \E i \in 2..Len(Nodes) :
          /\ GetFree(mem, Nodes[i])
          /\ ~GetFree(mem, Nodes[i - 1])
          /\ PayloadOf(Nodes[i - 1]) \in DOMAIN live
          /\ GetSize(mem, Nodes[i - 1]) = 32
          /\ GetSize(mem, Nodes[i]) = 96 + 32

\* C39: every call returns after finitely many steps along the chain: no loop
\* of coalesce_blocks, defragment_heap, the searches or the readers comes
\* back to a block it has already left.
C39_Termination == fault # "hang"

====
